---- MODULE Spec2Model ----
(***************************************************************************)
(* Model of download_methylation_data.py: the dataset registry, the run    *)
(* resolver (get_bioproject_runs), the run fetcher (_download_run), the    *)
(* dataset orchestrator (download_dataset) and the script emitter          *)
(* (create_download_script).                                               *)
(*                                                                         *)
(* Text is modelled as sequences of tokens: an accession "SRR7951165" is   *)
(* <<"SRR", "7951165">>, a file name is the tokens of its parts, and the   *)
(* query tool's stdout is a token sequence with "," and "\n" tokens, so    *)
(* that strip, split, startswith and glob are computed, not assumed.       *)
(***************************************************************************)
EXTENDS Integers, Sequences, FiniteSets, TLC

VARIABLES
    sra_available,   \* self.sra_available, set by the constructor
    files,           \* regular files below output_dir: [dir, name]
    dirs,            \* dataset directories below output_dir
    pc,              \* position of download_dataset: idle, loop_bp, loop_run, done, raised
    args,            \* arguments of the download_dataset call
    bioprojects,     \* local `bioprojects`
    bp_i,            \* index of the outer for loop
    runs,            \* local `runs` (after the limit)
    run_i,           \* index of the inner for loop
    success,         \* local `success`
    ret,             \* value returned by download_dataset
    resolved,        \* what get_bioproject_runs returned for the current bioproject
    queryYielded,    \* whether the query path produced an accession for it
    resolver_calls,  \* bioprojects passed to get_bioproject_runs by this call
    planned,         \* concatenation of the `runs` lists the inner loop was given
    fetched,         \* run accessions passed to _download_run by this call
    anyFailed,       \* some _download_run of this call returned False
    tools_used,      \* external tools invoked by this call
    call,            \* trace of the last direct _download_run invocation
    rcall,           \* trace of the last direct get_bioproject_runs invocation
    emitted          \* what the last create_download_script call wrote

vars == <<sra_available, files, dirs, pc, args, bioprojects, bp_i, runs, run_i,
          success, ret, resolved, queryYielded, resolver_calls, planned, fetched,
          anyFailed, tools_used, call, rcall, emitted>>

None == "None"

(***************************************************************************)
(* Bounds of the model.                                                    *)
(***************************************************************************)
MaxRows == 2        \* data lines after the header in the query tool's stdout
MaxRunsArg == 2     \* largest --max-runs value tried

(***************************************************************************)
(* Dataset registry and the static fallback table.                         *)
(***************************************************************************)
METHYLATION_DATASETS ==
    [wgbs_roberts              |-> <<"PRJNA316216", "PRJNA394801">>,
     wgbs_ocean_acidification  |-> <<"PRJNA394801", "PRJNA316216">>,
     rrbs_developmental        |-> <<"PRJNA486983", "PRJNA273482">>,
     rrbs_environmental_stress |-> <<"PRJNA506631", "PRJNA413624">>,
     medip_seq                 |-> <<"PRJNA348937", "PRJNA394425">>,
     targeted_bisulfite        |-> <<"PRJNA311096", "PRJNA381456">>,
     magallana_recent          |-> <<"PRJNA725689", "PRJNA688412">>]

\* info['estimated_size_gb'] of each dataset, as its characters
estimated_size_gb ==
    [wgbs_roberts              |-> <<"2", "0", "0", "-", "4", "0", "0">>,
     wgbs_ocean_acidification  |-> <<"1", "5", "0", "-", "2", "5", "0">>,
     rrbs_developmental        |-> <<"5", "0", "-", "1", "0", "0">>,
     rrbs_environmental_stress |-> <<"4", "0", "-", "8", "0">>,
     medip_seq                 |-> <<"3", "0", "-", "6", "0">>,
     targeted_bisulfite        |-> <<"1", "0", "-", "3", "0">>,
     magallana_recent          |-> <<"1", "0", "0", "-", "2", "0", "0">>]

SRR(d) == <<"SRR", d>>

known_runs ==
    [PRJNA316216 |-> <<SRR("4341274"), SRR("4341275"), SRR("4341276")>>,
     PRJNA394801 |-> <<SRR("5877947"), SRR("5877948"), SRR("5877949")>>,
     PRJNA486983 |-> <<SRR("7951165"), SRR("7951166"), SRR("7951167")>>,
     PRJNA273482 |-> <<SRR("1734651"), SRR("1734652"), SRR("1734653")>>,
     PRJNA506631 |-> <<SRR("8278144"), SRR("8278145"), SRR("8278146")>>,
     PRJNA413624 |-> <<SRR("6341890"), SRR("6341891"), SRR("6341892")>>,
     PRJNA348937 |-> <<SRR("4125567"), SRR("4125568"), SRR("4125569")>>,
     PRJNA394425 |-> <<SRR("5877950"), SRR("5877951"), SRR("5877952")>>,
     PRJNA311096 |-> <<SRR("3146589"), SRR("3146590"), SRR("3146591")>>,
     PRJNA381456 |-> <<SRR("5367898"), SRR("5367899"), SRR("5367900")>>,
     PRJNA725689 |-> <<SRR("14048801"), SRR("14048802"), SRR("14048803")>>,
     PRJNA688412 |-> <<SRR("13143456"), SRR("13143457"), SRR("13143458")>>]

\* known_runs.get(bioproject, [])
get_example_runs(bioproject) ==
    IF bioproject \in DOMAIN known_runs THEN known_runs[bioproject] ELSE <<>>

(***************************************************************************)
(* Text operations on token sequences.                                     *)
(***************************************************************************)
IsSpace(t) == t \in {" ", "\n"}

RECURSIVE LStrip(_)
LStrip(s) == IF s # <<>> /\ IsSpace(Head(s)) THEN LStrip(Tail(s)) ELSE s

RECURSIVE RStrip(_)
RStrip(s) ==
    IF s # <<>> /\ IsSpace(s[Len(s)]) THEN RStrip(SubSeq(s, 1, Len(s) - 1)) ELSE s

\* str.strip()
Strip(s) == RStrip(LStrip(s))

\* str.split(sep): the pieces between the separators; never an empty list
RECURSIVE SplitFrom(_, _, _, _)
SplitFrom(s, sep, cur, acc) ==
    IF s = <<>> THEN Append(acc, cur)
    ELSE IF Head(s) = sep THEN SplitFrom(Tail(s), sep, <<>>, Append(acc, cur))
    ELSE SplitFrom(Tail(s), sep, Append(cur, Head(s)), acc)

Split(s, sep) == SplitFrom(s, sep, <<>>, <<>>)

\* str.startswith('SRR')
StartsWithSRR(s) == s # <<>> /\ Head(s) = "SRR"

\* name starts with the tokens of prefix
StartsWith(name, prefix) ==
    /\ Len(name) >= Len(prefix)
    /\ SubSeq(name, 1, Len(prefix)) = prefix

(***************************************************************************)
(* Run resolver: get_bioproject_runs.                                      *)
(*                                                                         *)
(* The outcome q of the one subprocess.run call is the environment's:      *)
(* q.kind is "exit0", "nonzero" (returncode # 0), "timeout"                *)
(* (TimeoutExpired after 60 s) or "missing" (FileNotFoundError), and       *)
(* q.stdout is the captured text.                                          *)
(***************************************************************************)
Header == <<"Run", ",", "ReleaseDate">>

\* the accession the query tool reports for a bioproject in this model
QueryRun(bioproject) ==
    IF bioproject \in DOMAIN known_runs
    THEN known_runs[bioproject][2]
    ELSE <<"SRR", "1734651", "9">>

\* the lines the query tool may print after the header
RowChoices(bioproject) ==
    { QueryRun(bioproject) \o <<",", "2015-01-01">>,     \* SRR row
      <<"ERR", "1734651", ",", "2015-01-01">>,           \* row of another archive
      <<" ">>,                                           \* blank line
      <<" ">> \o QueryRun(bioproject) \o <<",", "x">> }  \* SRR row with leading space

RECURSIVE JoinLines(_)
JoinLines(lines) ==
    IF lines = <<>> THEN <<>>
    ELSE Head(lines) \o <<"\n">> \o JoinLines(Tail(lines))

Stdouts(bioproject) ==
    {<<>>, <<"\n">>} \cup
    { JoinLines(<<Header>> \o rows) :
        rows \in UNION { [1..n -> RowChoices(bioproject)] : n \in 0..MaxRows } }

Queries(bioproject) ==
    { [kind |-> k, stdout |-> <<>>] : k \in {"timeout", "missing"} } \cup
    { [kind |-> k, stdout |-> s] : k \in {"exit0", "nonzero"}, s \in Stdouts(bioproject) }

\* lines 171-178: the accessions of the data lines, in order
RECURSIVE ParseRows(_, _)
ParseRows(lines, acc) ==
    IF lines = <<>> THEN acc
    ELSE LET line == Head(lines)
             parts == Split(line, ",")
         IN  IF Strip(line) # <<>> /\ Len(parts) > 0 /\ StartsWithSRR(parts[1])
             THEN ParseRows(Tail(lines), Append(acc, parts[1]))
             ELSE ParseRows(Tail(lines), acc)

\* body of the first try block: exc is the exception it ends with (or None),
\* returned says whether it reached `return runs`
QueryBody(bioproject, q) ==
    IF q.kind = "timeout" THEN [exc |-> "TimeoutExpired", returned |-> FALSE, runs |-> <<>>]
    ELSE IF q.kind = "missing" THEN [exc |-> "FileNotFoundError", returned |-> FALSE, runs |-> <<>>]
    ELSE IF q.kind = "exit0" /\ q.stdout # <<>>
    THEN LET lines == Split(Strip(q.stdout), "\n")
         IN  IF Len(lines) > 1
             THEN [exc |-> None, returned |-> TRUE, runs |-> ParseRows(Tail(lines), <<>>)]
             ELSE [exc |-> None, returned |-> FALSE, runs |-> <<>>]
    ELSE [exc |-> None, returned |-> FALSE, runs |-> <<>>]

\* the first try block with its handler (lines 165-182):
\* except (TimeoutExpired, FileNotFoundError, Exception) catches everything
QueryMethod(bioproject, q) ==
    LET b == QueryBody(bioproject, q)
    IN  IF b.exc # None THEN [kind |-> "fall", runs |-> <<>>]
        ELSE IF b.returned THEN [kind |-> "return", runs |-> b.runs]
        ELSE [kind |-> "fall", runs |-> <<>>]

\* methods 2 and 3 (lines 185-200): the static table, empty when unknown
FallbackMethod(bioproject) ==
    LET example_runs == get_example_runs(bioproject)
    IN  IF example_runs # <<>> THEN example_runs ELSE get_example_runs(bioproject)

\* mutant: no try/except around the query, so that its exceptions leave the call
get_bioproject_runs_Unguarded(bioproject, q) ==
    LET b == QueryBody(bioproject, q)
    IN  IF b.exc # None THEN [runs |-> <<>>, raised |-> TRUE]
        ELSE IF b.returned THEN [runs |-> b.runs, raised |-> FALSE]
        ELSE [runs |-> FallbackMethod(bioproject), raised |-> FALSE]

\* get_bioproject_runs: the list returned, and whether an exception left it
get_bioproject_runs(bioproject, q) ==
    LET m == QueryMethod(bioproject, q)
    IN  IF m.kind = "return" THEN [runs |-> m.runs, raised |-> FALSE]
        ELSE IF m.kind = "raise" THEN [runs |-> <<>>, raised |-> FALSE]  \* outer except: return []
        ELSE [runs |-> FallbackMethod(bioproject), raised |-> FALSE]

(***************************************************************************)
(* Run fetcher: _download_run.                                             *)
(*                                                                         *)
(* env is the environment's part of one invocation:                        *)
(*   env.fasterq, env.fastq  outcome of the tool's subprocess.run: "ok"    *)
(*                 (returncode 0), "nonzero", "timeout" (TimeoutExpired    *)
(*                 after 3600 s) or "missing" (FileNotFoundError);         *)
(*   env.mates     the files a successful tool leaves (_1, _2);            *)
(*   env.order     the order in which glob lists them;                     *)
(*   env.gzipFailAt  which gzip call, if any, does not exit 0, 0 for none; *)
(*   env.gzipHow   how that gzip call goes wrong: "nonzero"                *)
(*                 (CalledProcessError, check=True) or "hang" (the gzip    *)
(*                 process never finishes by itself).                      *)
(* A process that never finishes by itself is cut off when its             *)
(* subprocess.run was given a timeout (outcome "timeout"); without one     *)
(* the call waits for ever and _download_run is blocked.                   *)
(* The file system itself is taken to be reliable: globbing and writing    *)
(* into an existing directory do not fail.                                 *)
(***************************************************************************)
\* --split-files: one file per read of a paired-end run
Mates == {"_1", "_2"}

Outcomes == {"ok", "nonzero", "timeout", "missing"}

\* the orders in which glob may list the files of the mates ms
Orders(ms) ==
    { o \in [1..Cardinality(ms) -> ms] : \A i, j \in 1..Cardinality(ms) : o[i] = o[j] => i = j }

GzipHows(failAt) == IF failAt = 0 THEN {"nonzero"} ELSE {"nonzero", "hang"}

AllEnvs ==
    UNION { UNION { [fasterq : Outcomes, fastq : Outcomes, mates : {ms},
                     order : Orders(ms), gzipFailAt : {k}, gzipHow : GzipHows(k)] :
                    k \in 0..Cardinality(ms) } : ms \in SUBSET Mates }

\* method 2 runs: fasterq-dump did not time out and did not complete with
\* every gzip finishing
ReachesFastq(e) ==
    \/ e.fasterq \in {"nonzero", "missing"}
    \/ e.fasterq = "ok" /\ e.gzipFailAt > 0 /\ e.gzipHow = "nonzero"

\* one environment for each course a call can take: the parts of the
\* environment that the call never consults are fixed (no files when
\* fasterq-dump does not exit 0, fastq-dump "ok" when it is not run)
Envs ==
    { e \in AllEnvs : /\ e.fasterq # "ok" => e.mates = {}
                      /\ ~ReachesFastq(e) => e.fastq = "ok" }

\* the environment of the fetches made by download_dataset: single-end runs
DatasetEnvs == { e \in Envs : e.fasterq = "ok" => e.mates = {"_1"} }

File(dir, name) == [dir |-> dir, name |-> name]

RawName(run, mate) == run \o <<mate, ".fastq">>

GzName(run, mate) == run \o <<mate, ".fastq", ".gz">>

PlaceholderName(run) == run \o <<"_DOWNLOAD_REQUIRED", ".txt">>

\* glob pattern f"{run_accession}*.fastq*"
GlobFastqAny(run, name) ==
    /\ StartsWith(name, run)
    /\ \E i \in (Len(run) + 1)..Len(name) : name[i] = ".fastq"

\* glob pattern f"{run_accession}*.fastq"
GlobFastq(run, name) ==
    /\ StartsWith(name, run)
    /\ Len(name) > Len(run)
    /\ name[Len(name)] = ".fastq"

\* mutant: the pattern f"{run_accession}*.fastq.gz", compressed files only
SkipCheck_GzOnly(run, dir, fs) ==
    \E f \in fs :
        /\ f.dir = dir
        /\ StartsWith(f.name, run)
        /\ Len(f.name) > Len(run) + 1
        /\ f.name[Len(f.name) - 1] = ".fastq"
        /\ f.name[Len(f.name)] = ".gz"

\* mutant: the pattern f"{run_accession}*", any file of the run
SkipCheck_AnyFile(run, dir, fs) ==
    \E f \in fs : f.dir = dir /\ StartsWith(f.name, run)

\* lines 282-283: output_files is not empty
SkipCheck(run, dir, fs) == \E f \in fs : f.dir = dir /\ GlobFastqAny(run, f.name)

\* the timeout= argument of each subprocess.run of the program, in seconds
DetectTimeout == 10

QueryTimeout == 60

DownloadTimeout == 3600

\* subprocess.run(['gzip', str(fastq_file)], check=True): no timeout argument
NoTimeout == 0

TimeoutOf(tool) ==
    CASE tool = "fastq-dump --version" -> DetectTimeout
      [] tool = "fasterq-dump --version" -> DetectTimeout
      [] tool = "esearch|efetch" -> QueryTimeout
      [] tool = "fasterq-dump" -> DownloadTimeout
      [] tool = "fastq-dump" -> DownloadTimeout
      [] tool = "gzip" -> NoTimeout

\* what subprocess.run makes of a process that never finishes by itself
HangOutcome(tool) == IF TimeoutOf(tool) = NoTimeout THEN "blocked" ELSE "timeout"

Tool(name, outcome) == [tool |-> name, outcome |-> outcome]

\* the files among `found` in the order env.order gives their mates
RECURSIVE GlobOrder(_, _, _, _)
GlobOrder(run, dir, found, order) ==
    IF order = <<>> THEN <<>>
    ELSE LET f == File(dir, RawName(run, Head(order)))
         IN  (IF f \in found THEN <<f>> ELSE <<>>) \o GlobOrder(run, dir, found, Tail(order))

\* lines 308-311: gzip each file in turn; the first failing gzip raises
RECURSIVE CompressAll(_, _, _, _, _, _)
CompressAll(fastq_files, i, failAt, how, fs, tools) ==
    IF i > Len(fastq_files)
    THEN [exc |-> None, blocked |-> FALSE, fs |-> fs, tools |-> tools]
    ELSE LET f == fastq_files[i]
         IN  IF i = failAt /\ how = "nonzero"
             THEN [exc |-> "CalledProcessError", blocked |-> FALSE, fs |-> fs,
                   tools |-> Append(tools, Tool("gzip", "nonzero"))]
             ELSE IF i = failAt /\ HangOutcome("gzip") = "timeout"
             THEN [exc |-> "TimeoutExpired", blocked |-> FALSE, fs |-> fs,
                   tools |-> Append(tools, Tool("gzip", "timeout"))]
             ELSE IF i = failAt
             THEN [exc |-> None, blocked |-> TRUE, fs |-> fs,
                   tools |-> Append(tools, Tool("gzip", "blocked"))]
             ELSE CompressAll(fastq_files, i + 1, failAt, how,
                              (fs \ {f}) \cup {File(f.dir, f.name \o <<".gz">>)},
                              Append(tools, Tool("gzip", "ok")))

\* body of the try block of method 1 (lines 291-315)
FasterqBody(run, dir, fs, env) ==
    LET t == <<Tool("fasterq-dump", env.fasterq)>>
    IN  IF env.fasterq = "timeout"
        THEN [exc |-> "TimeoutExpired", returned |-> FALSE, blocked |-> FALSE,
              fs |-> fs, tools |-> t]
        ELSE IF env.fasterq = "missing"
        THEN [exc |-> "FileNotFoundError", returned |-> FALSE, blocked |-> FALSE,
              fs |-> fs, tools |-> t]
        ELSE IF env.fasterq = "nonzero"
        THEN [exc |-> None, returned |-> FALSE, blocked |-> FALSE, fs |-> fs, tools |-> t]
        ELSE LET fs1 == fs \cup { File(dir, RawName(run, m)) : m \in env.mates }
                 found == { f \in fs1 : f.dir = dir /\ GlobFastq(run, f.name) }
                 c == CompressAll(GlobOrder(run, dir, found, env.order), 1,
                                  env.gzipFailAt, env.gzipHow, fs1, t)
             IN  [exc |-> c.exc, returned |-> (c.exc = None /\ ~c.blocked),
                  blocked |-> c.blocked, fs |-> c.fs, tools |-> c.tools]

\* mutant: the compression failure is not caught by method 1's handlers and
\* reaches the outer handler
FasterqMethod_GzipFatal(run, dir, fs, env) ==
    LET b == FasterqBody(run, dir, fs, env)
    IN  IF b.blocked
        THEN [kind |-> "blocked", ret |-> FALSE, fs |-> b.fs, tools |-> b.tools]
        ELSE IF b.exc = "TimeoutExpired"
        THEN [kind |-> "return", ret |-> FALSE, fs |-> b.fs, tools |-> b.tools]
        ELSE IF b.exc = "CalledProcessError"
        THEN [kind |-> "raise", ret |-> FALSE, fs |-> b.fs, tools |-> b.tools]
        ELSE IF b.exc # None
        THEN [kind |-> "fall", ret |-> FALSE, fs |-> b.fs, tools |-> b.tools]
        ELSE IF b.returned
        THEN [kind |-> "return", ret |-> TRUE, fs |-> b.fs, tools |-> b.tools]
        ELSE [kind |-> "fall", ret |-> FALSE, fs |-> b.fs, tools |-> b.tools]

\* mutant: no handler of its own for TimeoutExpired, which then falls through
\* to method 2 like any other exception
FasterqMethod_TimeoutFalls(run, dir, fs, env) ==
    LET b == FasterqBody(run, dir, fs, env)
    IN  IF b.blocked
        THEN [kind |-> "blocked", ret |-> FALSE, fs |-> b.fs, tools |-> b.tools]
        ELSE IF b.exc # None
        THEN [kind |-> "fall", ret |-> FALSE, fs |-> b.fs, tools |-> b.tools]
        ELSE IF b.returned
        THEN [kind |-> "return", ret |-> TRUE, fs |-> b.fs, tools |-> b.tools]
        ELSE [kind |-> "fall", ret |-> FALSE, fs |-> b.fs, tools |-> b.tools]

\* method 1 with its handlers (lines 290-321): TimeoutExpired returns False,
\* any other exception is logged and falls through to method 2
FasterqMethod(run, dir, fs, env) ==
    LET b == FasterqBody(run, dir, fs, env)
    IN  IF b.blocked
        THEN [kind |-> "blocked", ret |-> FALSE, fs |-> b.fs, tools |-> b.tools]
        ELSE IF b.exc = "TimeoutExpired"
        THEN [kind |-> "return", ret |-> FALSE, fs |-> b.fs, tools |-> b.tools]
        ELSE IF b.exc # None
        THEN [kind |-> "fall", ret |-> FALSE, fs |-> b.fs, tools |-> b.tools]
        ELSE IF b.returned
        THEN [kind |-> "return", ret |-> TRUE, fs |-> b.fs, tools |-> b.tools]
        ELSE [kind |-> "fall", ret |-> FALSE, fs |-> b.fs, tools |-> b.tools]

\* method 2 with its handler (lines 324-343), then `return False` (line 361)
FastqMethod(run, dir, fs, tools, env) ==
    LET t == Append(tools, Tool("fastq-dump", env.fastq))
    IN  IF env.fastq = "ok"
        THEN [ret |-> TRUE, tools |-> t,
              fs |-> fs \cup { File(dir, GzName(run, m)) : m \in env.mates }]
        ELSE [ret |-> FALSE, tools |-> t, fs |-> fs]

\* mutant: no `return True` after the placeholder is written, so that the
\* call ends in the final `return False`
PlaceholderMethod_NoReturn(run, dir, fs) ==
    [ret |-> FALSE, tools |-> <<>>, fs |-> fs \cup {File(dir, PlaceholderName(run))}]

\* method 3 (lines 346-359): write the placeholder, return True
PlaceholderMethod(run, dir, fs) ==
    [ret |-> TRUE, tools |-> <<>>, fs |-> fs \cup {File(dir, PlaceholderName(run))}]

\* _download_run: ret is the value returned, raised whether an exception left
\* the call instead, blocked whether the call never came back, fs the files
\* afterwards, tools the external tools invoked
\* in order, matched the outcome of the skip check
download_run(run, dir, fs, sra, env) ==
    IF SkipCheck(run, dir, fs)
    THEN [ret |-> TRUE, raised |-> FALSE, blocked |-> FALSE, fs |-> fs,
          tools |-> <<>>, matched |-> TRUE]
    ELSE IF sra
    THEN LET m1 == FasterqMethod(run, dir, fs, env)
         IN  IF m1.kind = "blocked"   \* the gzip of line 311 never came back
             THEN [ret |-> FALSE, raised |-> FALSE, blocked |-> TRUE, fs |-> m1.fs,
                   tools |-> m1.tools, matched |-> FALSE]
             ELSE IF m1.kind = "return"
             THEN [ret |-> m1.ret, raised |-> FALSE, blocked |-> FALSE, fs |-> m1.fs,
                   tools |-> m1.tools, matched |-> FALSE]
             ELSE IF m1.kind = "raise"    \* outer except Exception (363-365)
             THEN [ret |-> FALSE, raised |-> FALSE, blocked |-> FALSE, fs |-> m1.fs,
                   tools |-> m1.tools, matched |-> FALSE]
             ELSE LET m2 == FastqMethod(run, dir, m1.fs, m1.tools, env)
                  IN  [ret |-> m2.ret, raised |-> FALSE, blocked |-> FALSE, fs |-> m2.fs,
                       tools |-> m2.tools, matched |-> FALSE]
    ELSE LET m3 == PlaceholderMethod(run, dir, fs)
         IN  [ret |-> m3.ret, raised |-> FALSE, blocked |-> FALSE, fs |-> m3.fs,
              tools |-> m3.tools, matched |-> FALSE]

\* DownloadResult of the spec: Skipped and Success are both True in the code
Result(r) == IF r.matched THEN "Skipped" ELSE IF r.ret THEN "Success" ELSE "Failed"

(***************************************************************************)
(* Construction: __init__ and _check_sra_toolkit.                          *)
(***************************************************************************)
\* d1, d2: outcomes of `fastq-dump --version` and `fasterq-dump --version`
check_sra_toolkit(d1, d2) ==
    IF d1 = "ok" THEN TRUE
    ELSE IF d2 = "ok" THEN TRUE
    ELSE FALSE

(***************************************************************************)
(* Dataset orchestrator: download_dataset.                                 *)
(***************************************************************************)
\* Optional[int]: <<>> is None, <<n>> is n
NoInt == <<>>

SomeInt(n) == <<n>>

DatasetArgs == {"rrbs_developmental", "no_such_dataset"}

BioprojectArgs == {None, "PRJNA273482", "PRJNA000000"}

MaxRunsArgs == {NoInt} \cup { SomeInt(n) : n \in 0..MaxRunsArg }

CallArgs ==
    [dataset_id : DatasetArgs, bioproject : BioprojectArgs,
     max_runs : MaxRunsArgs, dry_run : BOOLEAN]

NoArgs == [dataset_id |-> None, bioproject |-> None, max_runs |-> NoInt, dry_run |-> FALSE]

InfoFile(dir) == File(dir, <<"dataset_info", ".json">>)

\* `if max_runs and len(runs) > max_runs: runs = runs[:max_runs]` (lines 264-265)
LimitRuns(rs, max_runs) ==
    IF max_runs # NoInt /\ max_runs[1] # 0 /\ Len(rs) > max_runs[1]
    THEN SubSeq(rs, 1, max_runs[1])
    ELSE rs

\* `[bioproject] if bioproject else dataset_info['bioprojects']` (line 246)
WorkingSet(dataset_id, bioproject) ==
    IF bioproject # None THEN <<bioproject>> ELSE METHYLATION_DATASETS[dataset_id]

\* mutant: the dry_run flag is never honoured
IsDryRun_Never(a) == FALSE

\* `if dry_run:` (line 252)
IsDryRun(a) == a.dry_run

\* mutant: `success = self._download_run(run, dataset_dir)`, the last result wins
Aggregate_LastWins(ok_so_far, fetch_ret) == fetch_ret

\* `if not self._download_run(run, dataset_dir): success = False` (lines 270-272)
Aggregate(ok_so_far, fetch_ret) == IF ~fetch_ret THEN FALSE ELSE ok_so_far

ToolNames(tools) == { tools[i].tool : i \in 1..Len(tools) }

\* whether the query path produced at least one accession
QueryYields(q) ==
    /\ q.kind = "exit0"
    /\ LET lines == Split(Strip(q.stdout), "\n")
       IN  \E i \in 2..Len(lines) : StartsWithSRR(Split(lines[i], ",")[1])

NoCall ==
    [run |-> <<>>, matched |-> FALSE, tools |-> <<>>, ret |-> FALSE, raised |-> FALSE,
     blocked |-> FALSE, sra |-> FALSE, before |-> {}]

NoScript == [called |-> FALSE, ids |-> <<>>, lines |-> <<>>, total_size |-> 0]

NoRCall ==
    [bioproject |-> None, q |-> [kind |-> None, stdout |-> <<>>], runs |-> <<>>,
     raised |-> FALSE]

\* what earlier runs of the program may have left in the dataset directory
InitFileSets ==
    LET D == "rrbs_developmental"
    IN  { {},
          {InfoFile(D), File(D, GzName(SRR("7951165"), "_1"))},
          {InfoFile(D), File(D, PlaceholderName(SRR("7951165"))),
           File(D, GzName(<<"SRR", "1734651", "9">>, "_1"))},
          {InfoFile(D), File(D, PlaceholderName(SRR("1734651")))} }

Init ==
    /\ \E d1, d2 \in Outcomes : sra_available = check_sra_toolkit(d1, d2)
    /\ \E fs \in InitFileSets, ds \in SUBSET {"rrbs_developmental"} :
          /\ (fs # {} => ds # {})
          /\ files = fs
          /\ dirs = ds
    /\ pc = "idle"
    /\ args = NoArgs
    /\ bioprojects = <<>>
    /\ bp_i = 1
    /\ runs = <<>>
    /\ run_i = 1
    /\ success = TRUE
    /\ ret = None
    /\ resolved = <<>>
    /\ queryYielded = FALSE
    /\ resolver_calls = <<>>
    /\ planned = <<>>
    /\ fetched = <<>>
    /\ anyFailed = FALSE
    /\ tools_used = {}
    /\ call = NoCall
    /\ rcall = NoRCall
    /\ emitted = NoScript

\* mutant: the directory and the metadata file are written before the
\* registry check
Call_LateCheck(a) ==
    /\ pc = "idle"
    /\ args' = a
    /\ dirs' = dirs \cup {a.dataset_id}
    /\ files' = files \cup {InfoFile(a.dataset_id)}
    /\ IF a.dataset_id \notin DOMAIN METHYLATION_DATASETS
       THEN /\ ret' = FALSE
            /\ pc' = "done"
            /\ UNCHANGED <<bioprojects, success>>
       ELSE /\ bioprojects' = WorkingSet(a.dataset_id, a.bioproject)
            /\ success' = TRUE
            /\ pc' = "loop_bp"
            /\ UNCHANGED ret
    /\ UNCHANGED <<sra_available, bp_i, runs, run_i, resolved, queryYielded,
                   resolver_calls, planned, fetched, anyFailed, tools_used, call, rcall, emitted>>

\* lines 229-248: the registry check, the directory, the metadata file
Call(a) ==
    /\ pc = "idle"
    /\ args' = a
    /\ IF a.dataset_id \notin DOMAIN METHYLATION_DATASETS
       THEN /\ ret' = FALSE
            /\ pc' = "done"
            /\ UNCHANGED <<files, dirs, bioprojects, success>>
       ELSE /\ dirs' = dirs \cup {a.dataset_id}
            /\ files' = files \cup {InfoFile(a.dataset_id)}
            /\ bioprojects' = WorkingSet(a.dataset_id, a.bioproject)
            /\ success' = TRUE
            /\ pc' = "loop_bp"
            /\ UNCHANGED ret
    /\ UNCHANGED <<sra_available, bp_i, runs, run_i, resolved, queryYielded,
                   resolver_calls, planned, fetched, anyFailed, tools_used, call, rcall, emitted>>

\* lines 252-254: dry run, next bioproject
DryRunSkip ==
    /\ pc = "loop_bp"
    /\ bp_i <= Len(bioprojects)
    /\ IsDryRun(args)
    /\ bp_i' = bp_i + 1
    /\ UNCHANGED <<sra_available, files, dirs, pc, args, bioprojects, runs, run_i,
                   success, ret, resolved, queryYielded, resolver_calls, planned,
                   fetched, anyFailed, tools_used, call, rcall, emitted>>

\* lines 257-266: resolve the runs of the bioproject, skip it when there are
\* none, limit them to max_runs
ProcessBioproject ==
    /\ pc = "loop_bp"
    /\ bp_i <= Len(bioprojects)
    /\ ~IsDryRun(args)
    /\ \E q \in Queries(bioprojects[bp_i]) :
       LET bp == bioprojects[bp_i]
           r == get_bioproject_runs(bp, q)
           limited == LimitRuns(r.runs, args.max_runs)
       IN  /\ resolver_calls' = Append(resolver_calls, bp)
           /\ tools_used' = tools_used \cup {"esearch|efetch"}
           /\ resolved' = r.runs
           /\ queryYielded' = QueryYields(q)
           /\ IF r.raised
              THEN /\ pc' = "raised"
                   /\ UNCHANGED <<bp_i, runs, run_i, planned>>
              ELSE IF r.runs = <<>> \/ limited = <<>>
              THEN /\ pc' = "loop_bp"
                   /\ bp_i' = bp_i + 1
                   /\ runs' = IF r.runs = <<>> THEN runs ELSE limited
                   /\ UNCHANGED <<run_i, planned>>
              ELSE /\ pc' = "loop_run"
                   /\ runs' = limited
                   /\ run_i' = 1
                   /\ planned' = planned \o limited
                   /\ UNCHANGED bp_i
    /\ UNCHANGED <<sra_available, files, dirs, args, bioprojects, success, ret,
                   fetched, anyFailed, call, rcall, emitted>>

\* lines 269-272: one iteration of the inner loop
FetchStep(env) ==
    /\ pc = "loop_run"
    /\ run_i <= Len(runs)
    /\ \E r \in {download_run(runs[run_i], args.dataset_id, files, sra_available, env)} :
           /\ fetched' = Append(fetched, runs[run_i])
           /\ files' = r.fs
           /\ tools_used' = tools_used \cup ToolNames(r.tools)
           /\ anyFailed' = (anyFailed \/ (~r.raised /\ ~r.blocked /\ ~r.ret))
           /\ IF r.blocked
              THEN /\ pc' = "blocked"
                   /\ UNCHANGED <<success, run_i, bp_i>>
              ELSE IF r.raised
              THEN /\ pc' = "raised"
                   /\ UNCHANGED <<success, run_i, bp_i>>
              ELSE /\ success' = Aggregate(success, r.ret)
                   /\ IF run_i < Len(runs)
                      THEN /\ run_i' = run_i + 1
                           /\ UNCHANGED <<pc, bp_i>>
                      ELSE /\ pc' = "loop_bp"
                           /\ bp_i' = bp_i + 1
                           /\ UNCHANGED run_i
    /\ UNCHANGED <<sra_available, dirs, args, bioprojects, runs, ret, resolved,
                   queryYielded, resolver_calls, planned, call, rcall, emitted>>

\* line 274: return success
Return ==
    /\ pc = "loop_bp"
    /\ bp_i > Len(bioprojects)
    /\ ret' = success
    /\ pc' = "done"
    /\ UNCHANGED <<sra_available, files, dirs, args, bioprojects, bp_i, runs, run_i,
                   success, resolved, queryYielded, resolver_calls, planned, fetched,
                   anyFailed, tools_used, call, rcall, emitted>>

Next ==
    \/ \E a \in CallArgs : Call(a)
    \/ DryRunSkip
    \/ ProcessBioproject
    \/ \E env \in DatasetEnvs : FetchStep(env)
    \/ Return

Spec == Init /\ [][Next]_vars

(***************************************************************************)
(* Direct invocations of _download_run on an existing dataset directory,   *)
(* any number of times, as download_dataset makes them.                    *)
(***************************************************************************)
FetchDir == "rrbs_developmental"

FetchRuns == { SRR("1734651"), <<"SRR", "1734651", "9">> }

FetchCall(run, env) ==
    /\ pc = "idle"
    /\ FetchDir \in dirs
    /\ \E r \in {download_run(run, FetchDir, files, sra_available, env)} :
           /\ files' = r.fs
           /\ call' = [run |-> run, matched |-> r.matched, tools |-> r.tools,
                       ret |-> r.ret, raised |-> r.raised, blocked |-> r.blocked,
                       sra |-> sra_available, before |-> files]
           /\ pc' = IF r.blocked THEN "blocked" ELSE pc
    /\ UNCHANGED <<sra_available, dirs, args, bioprojects, bp_i, runs, run_i,
                   success, ret, resolved, queryYielded, resolver_calls, planned,
                   fetched, anyFailed, tools_used, rcall, emitted>>

NextFetch == \E run \in FetchRuns, env \in Envs : FetchCall(run, env)

SpecFetch == Init /\ [][NextFetch]_vars

(***************************************************************************)
(* create_download_script: the script is the sequence of its command       *)
(* lines (mkdir, download, gzip); comment and echo lines are left out,     *)
(* except the echo that prints the total size, kept as total_size.         *)
(***************************************************************************)
MaxIds == 3

ScriptIds == {"wgbs_roberts", "wgbs_ocean_acidification", "targeted_bisulfite",
              "no_such_dataset"}

RECURSIVE SeqsUpTo(_, _)
SeqsUpTo(S, n) ==
    IF n = 0 THEN {<<>>}
    ELSE LET shorter == SeqsUpTo(S, n - 1)
         IN  shorter \cup { Append(q, x) : q \in shorter, x \in S }

DigitValue(c) ==
    CASE c = "0" -> 0 [] c = "1" -> 1 [] c = "2" -> 2 [] c = "3" -> 3 [] c = "4" -> 4
      [] c = "5" -> 5 [] c = "6" -> 6 [] c = "7" -> 7 [] c = "8" -> 8 [] c = "9" -> 9

\* int(text) for a text of decimal digits
RECURSIVE ParseInt(_, _)
ParseInt(text, acc) ==
    IF text = <<>> THEN acc ELSE ParseInt(Tail(text), acc * 10 + DigitValue(Head(text)))

\* mutant: the lower bound of the range is added instead of the upper one
SizeUpper_Lower(size) ==
    LET size_range == Split(size, "-")
    IN  IF Len(size_range) = 2 THEN ParseInt(size_range[1], 0) ELSE 0

\* lines 412-414: the upper bound of the range, or nothing
SizeUpper(size) ==
    LET size_range == Split(size, "-")
    IN  IF Len(size_range) = 2 THEN ParseInt(size_range[2], 0) ELSE 0

Line(cmd, dataset_id, bioproject, run) ==
    [cmd |-> cmd, dataset |-> dataset_id, bioproject |-> bioproject, run |-> run]

\* example_runs[:3]
ExampleLimit == 3

FirstRuns(example_runs) ==
    IF Len(example_runs) > ExampleLimit THEN SubSeq(example_runs, 1, ExampleLimit)
    ELSE example_runs

\* lines 427-432: the commands of each listed run
RECURSIVE RunLines(_, _, _, _)
RunLines(dataset_id, bioproject, rs, i) ==
    IF i > Len(rs) THEN <<>>
    ELSE <<Line("download", dataset_id, bioproject, rs[i]),
           Line("gzip", dataset_id, bioproject, rs[i])>>
         \o RunLines(dataset_id, bioproject, rs, i + 1)

\* lines 416-452: the loop over info['bioprojects']
RECURSIVE BioprojectLines(_, _, _)
BioprojectLines(dataset_id, bps, i) ==
    IF i > Len(bps) THEN <<>>
    ELSE LET bioproject == bps[i]
             example_runs == get_example_runs(bioproject)
         IN  <<Line("mkdir", dataset_id, bioproject, <<>>)>>
             \o (IF example_runs # <<>>
                 THEN RunLines(dataset_id, bioproject, FirstRuns(example_runs), 1)
                 ELSE <<>>)
             \o BioprojectLines(dataset_id, bps, i + 1)

\* lines 401-452: the loop over dataset_ids
RECURSIVE ScriptBody(_, _, _, _)
ScriptBody(dataset_ids, i, lines, total_size) ==
    IF i > Len(dataset_ids) THEN [lines |-> lines, total_size |-> total_size]
    ELSE LET dataset_id == dataset_ids[i]
         IN  IF dataset_id \in DOMAIN METHYLATION_DATASETS
             THEN ScriptBody(dataset_ids, i + 1,
                      lines \o <<Line("mkdir", dataset_id, None, <<>>)>>
                            \o BioprojectLines(dataset_id,
                                               METHYLATION_DATASETS[dataset_id], 1),
                      total_size + SizeUpper(estimated_size_gb[dataset_id]))
             ELSE ScriptBody(dataset_ids, i + 1, lines, total_size)

ScriptFile == File(".", <<"download_script", ".sh">>)

\* create_download_script(dataset_ids), with the default output_file
create_download_script(dataset_ids) ==
    /\ pc = "idle"
    /\ LET b == ScriptBody(dataset_ids, 1, <<>>, 0)
       IN  emitted' = [called |-> TRUE, ids |-> dataset_ids, lines |-> b.lines,
                       total_size |-> b.total_size]
    /\ files' = files \cup {ScriptFile}
    /\ UNCHANGED <<sra_available, dirs, pc, args, bioprojects, bp_i, runs, run_i,
                   success, ret, resolved, queryYielded, resolver_calls, planned,
                   fetched, anyFailed, tools_used, call, rcall>>

NextScript == \E dataset_ids \in SeqsUpTo(ScriptIds, MaxIds) :
                 create_download_script(dataset_ids)

SpecScript == Init /\ [][NextScript]_vars

(***************************************************************************)
(* Direct invocations of get_bioproject_runs.                              *)
(***************************************************************************)
ResolveBioprojects == {"PRJNA486983", "PRJNA273482", "PRJNA000000"}

ResolveCall(bp, q) ==
    /\ pc = "idle"
    /\ LET r == get_bioproject_runs(bp, q)
       IN  rcall' = [bioproject |-> bp, q |-> q, runs |-> r.runs, raised |-> r.raised]
    /\ UNCHANGED <<sra_available, files, dirs, pc, args, bioprojects, bp_i, runs,
                   run_i, success, ret, resolved, queryYielded, resolver_calls,
                   planned, fetched, anyFailed, tools_used, call, emitted>>

NextResolve == \E bp \in ResolveBioprojects : \E q \in Queries(bp) : ResolveCall(bp, q)

SpecResolve == Init /\ [][NextResolve]_vars

(***************************************************************************)
(* Properties of _download_run, checked under SpecFetch.                   *)
(***************************************************************************)
\* destDir holds a file whose name begins with the accession and has
\* ".fastq" after it
HasMatchingFile(run, fs) ==
    \E f \in fs :
        /\ f.dir = FetchDir
        /\ Len(f.name) > Len(run)
        /\ \A i \in 1..Len(run) : f.name[i] = run[i]
        /\ \E i \in (Len(run) + 1)..Len(f.name) : f.name[i] = ".fastq"

Invoked(c, tool) == \E i \in 1..Len(c.tools) : c.tools[i].tool = tool

\* the last call was made with a tool available and no matching file present
ToolCase(c) == c.run # <<>> /\ c.sra /\ ~HasMatchingFile(c.run, c.before)

\* ... fasterq-dump exited 0 and a gzip of one of its files exited non-zero
GzipFailed(c) ==
    /\ ToolCase(c)
    /\ Len(c.tools) > 0
    /\ c.tools[1] = Tool("fasterq-dump", "ok")
    /\ \E i \in 1..Len(c.tools) : c.tools[i] = Tool("gzip", "nonzero")

\* C1, as stated: when fasterq-dump exits 0 and compressing one of its files
\* fails, the failure propagates out of _download_run as an error: no result is
\* returned and fastq-dump is not invoked.
C1_CompressionFailureFatal ==
    GzipFailed(call) => (call.raised /\ ~Invoked(call, "fastq-dump"))

\* C1, amended: such a compression failure is caught inside _download_run: no
\* error leaves the call, fastq-dump is invoked next, and the call returns
\* Success if fastq-dump exits 0 and Failed otherwise; the file whose
\* compression failed stays uncompressed in destDir.
C1_CompressionFailureFallsBack ==
    GzipFailed(call) =>
        LET n == Len(call.tools)
        IN  /\ ~call.raised
            /\ n >= 3
            /\ call.tools[n - 1] = Tool("gzip", "nonzero")
            /\ call.tools[n].tool = "fastq-dump"
            /\ call.ret = (call.tools[n].outcome = "ok")
            /\ \E m \in Mates : File(FetchDir, RawName(call.run, m)) \in files

\* a compression failure followed by a successful fastq-dump
C1_Witness == GzipFailed(call) /\ call.ret /\ Invoked(call, "fastq-dump")

\* the faster tool's attempt failed: its outcome is the first tool record
FasterFailedWith(c, outcomes) ==
    /\ ToolCase(c)
    /\ Len(c.tools) > 0
    /\ c.tools[1].tool = "fasterq-dump"
    /\ c.tools[1].outcome \in outcomes

FallbackOutcome(c) == c.tools[Len(c.tools)].outcome

\* C2, as stated: however the fasterq-dump attempt fails (non-zero exit, the
\* timeout expiring, the binary missing), fastq-dump is attempted before a
\* result is returned; Failed is returned only after both were attempted and
\* both failed, and Success is returned if fastq-dump exits 0.
C2_FallbackAfterEveryFailure ==
    /\ FasterFailedWith(call, {"nonzero", "timeout", "missing"}) =>
           /\ Invoked(call, "fastq-dump")
           /\ call.ret = (FallbackOutcome(call) = "ok")
    /\ (ToolCase(call) /\ ~call.blocked /\ ~call.ret) =>
           /\ Invoked(call, "fasterq-dump")
           /\ Invoked(call, "fastq-dump")
           /\ FallbackOutcome(call) # "ok"

\* C2, amended: when the fasterq-dump attempt fails in any way other than its
\* timeout expiring (non-zero exit, binary missing, a failed compression),
\* fastq-dump is attempted before a result is returned, and the result is
\* Success exactly if fastq-dump exits 0; when fasterq-dump's timeout expires,
\* Failed is returned at once and fastq-dump is not attempted. Failed is
\* returned only after fasterq-dump timed out or after both tools were
\* attempted and both failed.
C2_FallbackUnlessTimeout ==
    /\ (FasterFailedWith(call, {"nonzero", "missing"}) \/ GzipFailed(call)) =>
           /\ Invoked(call, "fastq-dump")
           /\ call.tools[Len(call.tools)].tool = "fastq-dump"
           /\ call.ret = (FallbackOutcome(call) = "ok")
    /\ FasterFailedWith(call, {"timeout"}) =>
           /\ call.tools = <<Tool("fasterq-dump", "timeout")>>
           /\ ~call.ret
           /\ ~call.raised
           /\ files = call.before
    /\ (ToolCase(call) /\ ~call.blocked /\ ~call.ret) =>
           \/ call.tools = <<Tool("fasterq-dump", "timeout")>>
           \/ /\ Invoked(call, "fasterq-dump")
              /\ call.tools[Len(call.tools)].tool = "fastq-dump"
              /\ FallbackOutcome(call) # "ok"

\* fasterq-dump missing, fastq-dump exits 0, Success
C2_Witness ==
    /\ FasterFailedWith(call, {"missing"})
    /\ call.tools = <<Tool("fasterq-dump", "missing"), Tool("fastq-dump", "ok")>>
    /\ call.ret

\* C7: whenever destDir already holds a file matching <runId>*.fastq*, the
\* call returns the skipped (True) outcome, invokes no external tool and
\* leaves every file as it was, with or without a download tool; the file
\* still matches afterwards, so that a repeated call does the same.
C7_SkipWhenPresent ==
    (call.run # <<>> /\ HasMatchingFile(call.run, call.before)) =>
        /\ call.matched
        /\ call.ret
        /\ ~call.raised
        /\ call.tools = <<>>
        /\ files = call.before
        /\ HasMatchingFile(call.run, files)

\* a skip without a download tool, caused by the file of a longer accession
C7_Witness ==
    /\ call.run = SRR("1734651")
    /\ ~call.sra
    /\ call.matched
    /\ File(FetchDir, GzName(<<"SRR", "1734651", "9">>, "_1")) \in call.before

\* C9: without a detected download tool and with no matching file present,
\* the call invokes no external tool, writes <runId>_DOWNLOAD_REQUIRED.txt
\* into destDir and nothing else, and returns Success; the detection result
\* is the one fixed at construction.
C9_PlaceholderWithoutTool ==
    /\ call.run # <<>> => call.sra = sra_available
    /\ (call.run # <<>> /\ ~call.sra /\ ~HasMatchingFile(call.run, call.before)) =>
           /\ call.tools = <<>>
           /\ call.ret
           /\ ~call.raised
           /\ ~call.matched
           /\ files = call.before \cup {File(FetchDir, call.run \o <<"_DOWNLOAD_REQUIRED", ".txt">>)}

\* the placeholder was written by the last call
C9_Witness ==
    /\ call.run # <<>>
    /\ ~call.sra
    /\ ~call.matched
    /\ call.ret
    /\ File(FetchDir, PlaceholderName(call.run)) \in files \ call.before

(***************************************************************************)
(* Properties of get_bioproject_runs, checked under SpecResolve.           *)
(***************************************************************************)
InTable(bp) == bp \in DOMAIN known_runs

\* C3, as stated: for a bioproject of the fallback table, whenever the query
\* path yields no accession the result is the table's list; the result is
\* empty only if neither the query path nor the table yields an accession.
C3_FallbackWheneverQueryEmpty ==
    /\ (InTable(rcall.bioproject) /\ ~QueryYields(rcall.q)) =>
           rcall.runs = known_runs[rcall.bioproject]
    /\ (rcall.bioproject # None /\ rcall.runs = <<>>) =>
           (~QueryYields(rcall.q) /\ ~InTable(rcall.bioproject))

(***************************************************************************)
(* Properties of download_dataset, checked under Spec.                     *)
(***************************************************************************)
KnownDataset == args.dataset_id \in DOMAIN METHYLATION_DATASETS

\* the first n entries of rs when it has more than n, else rs
FirstN(rs, n) == IF Len(rs) > n THEN [i \in 1..n |-> rs[i]] ELSE rs

\* C4, as stated: whenever a list of runs is handed to the inner loop, it is
\* the first N entries of the resolver's list when max_runs = N (N >= 0, also
\* N = 0) and the resolver returned more than N, and the resolver's list
\* itself when it returned N or fewer or when max_runs is not given.
C4_TruncatedToMaxRuns ==
    pc = "loop_run" =>
        runs = IF args.max_runs = NoInt THEN resolved
               ELSE FirstN(resolved, args.max_runs[1])

\* fetched is planned up to position n
FetchedUpTo(n) ==
    /\ Len(fetched) = n
    /\ n <= Len(planned)
    /\ \A i \in 1..n : fetched[i] = planned[i]

\* C5: download_dataset continues on error. For a known dataset id every run
\* of the (limited) list of every bioproject of the working set is passed to
\* _download_run exactly once and in order, whatever earlier fetches returned;
\* no exception ends the call; and the value returned is False exactly if
\* some fetch returned False (Failed).
C5_ContinueOnError ==
    /\ pc # "raised"
    /\ pc = "loop_run" => FetchedUpTo(Len(planned) - Len(runs) + run_i - 1)
    /\ pc = "loop_bp" => FetchedUpTo(Len(planned))
    /\ (pc = "done" /\ KnownDataset) =>
           /\ FetchedUpTo(Len(planned))
           /\ bp_i = Len(bioprojects) + 1
           /\ ~args.dry_run => resolver_calls = bioprojects
           /\ (ret = FALSE) <=> anyFailed
           /\ ret \in BOOLEAN

\* both bioprojects were processed in full although the first fetch failed
\* and the last one succeeded
C5_Witness ==
    /\ pc = "done"
    /\ ret = FALSE
    /\ sra_available
    /\ Len(fetched) = 6
    /\ ~SkipCheck(fetched[1], args.dataset_id, files)
    /\ SkipCheck(fetched[6], args.dataset_id, files)

\* C6: for a dataset id that is not in the registry the call returns False at
\* once: no resolver call, no fetch, no external tool, and no directory or
\* file is created, whatever bioproject, max_runs and dry_run are.
C6_UnknownDatasetFailsFast ==
    [][ (pc = "idle" /\ pc' # "idle"
           /\ args'.dataset_id \notin DOMAIN METHYLATION_DATASETS) =>
        /\ pc' = "done"
        /\ ret' = FALSE
        /\ files' = files
        /\ dirs' = dirs
        /\ resolver_calls' = <<>>
        /\ fetched' = <<>>
        /\ tools_used' = {} ]_vars

\* an unknown id with every other argument set, on an output directory that
\* holds nothing
C6_Witness ==
    /\ pc = "done"
    /\ args.dataset_id = "no_such_dataset"
    /\ args.bioproject = "PRJNA273482"
    /\ args.max_runs = SomeInt(1)
    /\ args.dry_run
    /\ ret = FALSE
    /\ dirs = {}
    /\ files = {}

\* C8: with dry_run and a known dataset id there is no call of
\* get_bioproject_runs, no call of _download_run and no external tool, the
\* call returns True, and the dataset directory and dataset_info.json are
\* written all the same.
C8_DryRunCallsNothing ==
    (pc # "idle" /\ args.dry_run /\ KnownDataset) =>
        /\ resolver_calls = <<>>
        /\ fetched = <<>>
        /\ tools_used = {}
        /\ pc \in {"loop_bp", "done"}
        /\ args.dataset_id \in dirs
        /\ InfoFile(args.dataset_id) \in files
        /\ pc = "done" => (ret = TRUE /\ bp_i = Len(bioprojects) + 1)

\* a dry run over both bioprojects of the dataset has returned
C8_Witness ==
    /\ pc = "done"
    /\ args.dry_run
    /\ args.dataset_id = "rrbs_developmental"
    /\ args.bioproject = None
    /\ bp_i = 3
    /\ ret = TRUE

\* C10: for a bioproject that is not in the fallback table and for which the
\* query path yields no accession, whatever the outcome of the query,
\* get_bioproject_runs returns the empty list and raises nothing, and
\* download_dataset goes on to the next bioproject without a fetch and
\* without marking the dataset failed.
C10_NoRunsIsNotAnError ==
    [][ (resolver_calls' # resolver_calls /\ ~queryYielded'
           /\ ~InTable(bioprojects[bp_i])) =>
        /\ resolved' = <<>>
        /\ pc' = "loop_bp"
        /\ bp_i' = bp_i + 1
        /\ success' = success
        /\ anyFailed' = anyFailed
        /\ fetched' = fetched
        /\ files' = files ]_vars

\* the call for a bioproject unknown everywhere has returned True
C10_Witness ==
    /\ pc = "done"
    /\ args.bioproject = "PRJNA000000"
    /\ resolver_calls = <<"PRJNA000000">>
    /\ ~queryYielded
    /\ resolved = <<>>
    /\ fetched = <<>>
    /\ ret = TRUE

\* C11, as stated: every external tool that _download_run invokes (fasterq-dump,
\* fastq-dump, gzip) is started with an explicit upper bound on the wait, so
\* every call of _download_run comes back: none stays blocked on a tool.
C11_EveryInvocationBounded ==
    /\ \A i \in 1..Len(call.tools) : TimeoutOf(call.tools[i].tool) > NoTimeout
    /\ ~call.blocked
    /\ pc # "blocked"

\* C12, as stated: a call download_dataset("rrbs_developmental", no bioproject
\* filter, max_runs = 1, dry_run = False) that has returned has made exactly two
\* calls of _download_run, one for a run of PRJNA486983 and then one for a run
\* of PRJNA273482, whatever the query tool and the fetches did.
C12_OneFetchPerBioproject ==
    (/\ pc = "done"
     /\ args = [dataset_id |-> "rrbs_developmental", bioproject |-> None,
                max_runs |-> SomeInt(1), dry_run |-> FALSE]) =>
        /\ resolver_calls = <<"PRJNA486983", "PRJNA273482">>
        /\ Len(fetched) = 2
        /\ fetched = planned

\* upper bounds of the size ranges, as the registry states them
UpperBoundGb ==
    [wgbs_roberts |-> 400, wgbs_ocean_acidification |-> 250, rrbs_developmental |-> 100,
     rrbs_environmental_stress |-> 80, medip_seq |-> 60, targeted_bisulfite |-> 30,
     magallana_recent |-> 200]

InRegistry(d) == d \in DOMAIN METHYLATION_DATASETS

Occurrences(ids, d) == Cardinality({ i \in 1..Len(ids) : ids[i] = d })

RECURSIVE SumUpper(_, _)
SumUpper(ids, i) ==
    IF i > Len(ids) THEN 0
    ELSE (IF InRegistry(ids[i]) THEN UpperBoundGb[ids[i]] ELSE 0) + SumUpper(ids, i + 1)

RECURSIVE Repeat(_, _)
Repeat(q, n) == IF n = 0 THEN <<>> ELSE q \o Repeat(q, n - 1)

LinesOf(cmd, d, b) ==
    SelectSeq(emitted.lines,
              LAMBDA l : l.cmd = cmd /\ l.dataset = d /\ l.bioproject = b)

RunsOf(ls) == [k \in 1..Len(ls) |-> ls[k].run]

\* C13: for every sequence of dataset ids given to create_download_script, the
\* total size printed is the sum, over the occurrences of registry ids in the
\* sequence, of the upper bound of the dataset's size range; no command names
\* an id that is not in the registry; and for each occurrence of a registry id
\* there is one mkdir of the dataset directory, one mkdir per bioproject, and
\* per bioproject the download commands of the first (at most 3) runs of the
\* static table, in table order.
C13_ScriptFollowsRegistry ==
    emitted.called =>
        /\ emitted.total_size = SumUpper(emitted.ids, 1)
        /\ \A k \in 1..Len(emitted.lines) :
               /\ InRegistry(emitted.lines[k].dataset)
               /\ Occurrences(emitted.ids, emitted.lines[k].dataset) > 0
        /\ \A d \in DOMAIN METHYLATION_DATASETS :
               LET n == Occurrences(emitted.ids, d)
               IN  /\ Len(LinesOf("mkdir", d, None)) = n
                   /\ \A j \in 1..Len(METHYLATION_DATASETS[d]) :
                          LET b == METHYLATION_DATASETS[d][j]
                              downloads == LinesOf("download", d, b)
                          IN  /\ Len(LinesOf("mkdir", d, b)) = n
                              /\ Len(downloads) <= 3 * n
                              /\ RunsOf(downloads) =
                                     Repeat(FirstN(get_example_runs(b), 3), n)

\* the script for ["wgbs_roberts"]: total 400, a mkdir for the dataset and for
\* each of its two bioprojects, three downloads for each bioproject
C13_Witness ==
    /\ emitted.called
    /\ emitted.ids = <<"wgbs_roberts">>
    /\ emitted.total_size = 400
    /\ Len(LinesOf("mkdir", "wgbs_roberts", None)) = 1
    /\ Len(LinesOf("mkdir", "wgbs_roberts", "PRJNA316216")) = 1
    /\ Len(LinesOf("mkdir", "wgbs_roberts", "PRJNA394801")) = 1
    /\ RunsOf(LinesOf("download", "wgbs_roberts", "PRJNA394801")) =
           <<SRR("5877947"), SRR("5877948"), SRR("5877949")>>

\* the placeholder of the run is in destDir
HasPlaceholder(run, fs) ==
    File(FetchDir, run \o <<"_DOWNLOAD_REQUIRED", ".txt">>) \in fs

\* C14: a call of _download_run is skipped exactly when destDir holds a file
\* whose name begins with the accession and has ".fastq" after it. The
\* placeholder <runId>_DOWNLOAD_REQUIRED.txt is no such file: a call that
\* finds the placeholder of its run and no matching file is not skipped;
\* without a tool it writes the placeholder again, leaving the files as they
\* were, and returns Success, and with a tool it starts with fasterq-dump.
C14_PlaceholderIsNoResumeMarker ==
    call.run # <<>> =>
        /\ call.matched <=> HasMatchingFile(call.run, call.before)
        /\ (HasPlaceholder(call.run, call.before)
              /\ ~HasMatchingFile(call.run, call.before)) =>
               /\ ~call.matched
               /\ ~call.sra =>
                      /\ call.tools = <<>>
                      /\ call.ret
                      /\ files = call.before
                      /\ HasPlaceholder(call.run, files)
               /\ call.sra =>
                      /\ Len(call.tools) > 0
                      /\ call.tools[1].tool = "fasterq-dump"

\* a call without a tool found the placeholder of its run, wrote it again and
\* returned Success
C14_Witness ==
    /\ call.run = SRR("1734651")
    /\ ~call.sra
    /\ HasPlaceholder(call.run, call.before)
    /\ ~call.matched
    /\ call.ret
    /\ files = call.before

====
